---- MODULE Spec2Model ----
(***************************************************************************)
(* Model of src/src/components/ExcelAnalyzer.tsx: the React component      *)
(* ExcelAnalyzer (lines 21-384).  The vanilla class of lines 387-690       *)
(* repeats the same isAssigned / parseDate / getTodayInKolkata /           *)
(* findColumns / analyzeExcel bodies line for line.                        *)
(*                                                                         *)
(* Representation.                                                         *)
(*  - A JavaScript value is a record [t, n, s]: t is its type tag, n the   *)
(*    number it holds, s the characters it holds (a sequence of            *)
(*    one-character strings).  A "datetext" is a string that spells a      *)
(*    calendar date: s is its layout and n the day it spells.              *)
(*  - Calendar days are numbered as spreadsheet serials: day n is          *)
(*    1899-12-30 plus n days, so 1900-01-01 is day 2.  Instants are        *)
(*    milliseconds since 00:00 UTC of day 0.                               *)
(*  - A host is the time zone of the machine the component runs on: off    *)
(*    is its UTC offset on the days explored, epochOff its offset on       *)
(*    1900-01-01 (local mean time was still in use in many zones).         *)
(***************************************************************************)
EXTENDS Integers, Sequences, FiniteSets, TLC

\* ---------------------------------------------------------------- bounds
\* Highest column index of a header row scanned on its own (SpecCols).
MaxScanCol == 2
\* Highest row index of a worksheet range (range.e.r); row 0 is the header.
MaxRow == 3
\* Highest spreadsheet serial given to parseDate on its own (SpecDate).
MaxSerial == 12
\* How many analyzeExcel calls may be suspended at the await at once (SpecUI).
MaxInFlight == 2
\* Highest row index of the worksheets analysed by overlapping calls (SpecUI).
MaxUIRow == 2
\* How many times the wall clock may advance by ClockStep.
MaxTicks == 1
\* The calendar day (in Asia/Kolkata) the wall clock starts on.
FirstDay == 3

\* ------------------------------------------------------------ JS values
Undefined == [t |-> "undefined", n |-> 0, s |-> <<>>]
Num(k) == [t |-> "number", n |-> k, s |-> <<>>]
Str(chars) == [t |-> "string", n |-> 0, s |-> chars]
\* Layouts of date strings: date-only ISO form and the en-US numeric form.
IsoLayout == <<"Y", "Y", "Y", "Y", "-", "M", "M", "-", "D", "D">>
UsLayout == <<"M", "/", "D", "/", "Y", "Y", "Y", "Y">>
DateText(layout, day) == [t |-> "datetext", n |-> day, s |-> layout]

\* JavaScript truthiness (!x, x || y).
Truthy(x) ==
  CASE x.t = "undefined" -> FALSE
    [] x.t = "number" -> x.n # 0
    [] OTHER -> x.s # <<>>

\* a || b
OrElse(a, b) == IF Truthy(a) THEN a ELSE b

\* A worksheet cell: absent, or an object with formatted text w and raw value v.
NoCell == [present |-> FALSE, w |-> Undefined, v |-> Undefined]
Cell(w, v) == [present |-> TRUE, w |-> w, v |-> v]

\* cell?.w || cell?.v
CellValue(cell) == IF cell.present THEN OrElse(cell.w, cell.v) ELSE Undefined

\* ----------------------------------------------------------- JS strings
UpperChars == <<"A", "B", "C", "D", "E", "F", "G", "H", "I", "J", "K", "L", "M",
                "N", "O", "P", "Q", "R", "S", "T", "U", "V", "W", "X", "Y", "Z">>
LowerChars == <<"a", "b", "c", "d", "e", "f", "g", "h", "i", "j", "k", "l", "m",
                "n", "o", "p", "q", "r", "s", "t", "u", "v", "w", "x", "y", "z">>
Digits == <<"0", "1", "2", "3", "4", "5", "6", "7", "8", "9">>

LowerMap ==
  [c \in {UpperChars[i] : i \in 1..Len(UpperChars)} |->
     LowerChars[CHOOSE i \in 1..Len(UpperChars) : UpperChars[i] = c]]
LowerChar(c) == IF c \in DOMAIN LowerMap THEN LowerMap[c] ELSE c

\* String.prototype.toLowerCase
toLowerCase(chars) == [i \in 1..Len(chars) |-> LowerChar(chars[i])]

\* String.prototype.trim
RECURSIVE trimStart(_)
trimStart(chars) ==
  IF chars # <<>> /\ Head(chars) = " " THEN trimStart(Tail(chars)) ELSE chars
RECURSIVE trimEnd(_)
trimEnd(chars) ==
  IF chars # <<>> /\ chars[Len(chars)] = " "
    THEN trimEnd(SubSeq(chars, 1, Len(chars) - 1))
    ELSE chars
trim(chars) == trimEnd(trimStart(chars))

\* String.prototype.includes
includes(chars, sub) ==
  \E i \in 0..(Len(chars) - Len(sub)) : SubSeq(chars, i + 1, i + Len(sub)) = sub

\* Decimal digits of a natural number.
RECURSIVE NatChars(_)
NatChars(k) ==
  IF k < 10 THEN <<Digits[k + 1]>> ELSE NatChars(k \div 10) \o <<Digits[(k % 10) + 1]>>

\* String(value)
String(x) ==
  CASE x.t = "undefined" -> <<"u", "n", "d", "e", "f", "i", "n", "e", "d">>
    [] x.t = "number" -> NatChars(x.n)
    [] OTHER -> x.s

\* ----------------------------------------------------------- isAssigned
sYes == <<"y", "e", "s">>
sTrue == <<"t", "r", "u", "e">>
sAssigned == <<"a", "s", "s", "i", "g", "n", "e", "d">>
sDone == <<"d", "o", "n", "e">>
sNo == <<"n", "o">>
sFalse == <<"f", "a", "l", "s", "e">>
sUnassigned == <<"u", "n">> \o sAssigned
PositiveWords == {sYes, sTrue, sAssigned, sDone, <<"1">>}

\* Mutant of isAssigned: only the listed positive words count as assigned.
isAssignedStrict(value) ==
  IF value.t = "undefined" \/ (value.t = "string" /\ value.s = <<>>)
    THEN FALSE
    ELSE toLowerCase(String(value)) \in PositiveWords

isAssigned(value) ==
  IF value.t = "undefined" \/ (value.t = "string" /\ value.s = <<>>)
    THEN FALSE
    ELSE LET str == trim(toLowerCase(String(value)))
         IN  str \in PositiveWords
             \/ (str # sNo /\ str # sFalse /\ str # sUnassigned
                 /\ str # <<"0">> /\ str # <<>>)

\* ------------------------------------------------------------ dates
\* JS null, for a column reference, a Date and the error state.
Null == "null"
MsPerDay == 24 * 60 * 60 * 1000
MsPerMinute == 60 * 1000
\* Asia/Kolkata is UTC+5:30 on every day explored.
KolkataOffset == (5 * 60 + 30) * MsPerMinute
\* The serial day of new Date(1900, 0, 1).
ExcelEpochDay == 2

\* Host time zones: [off, epochOff] in milliseconds east of UTC.
Hosts ==
  { [name |-> "UTC", off |-> 0, epochOff |-> 0],
    [name |-> "Asia/Kolkata", off |-> KolkataOffset,
     epochOff |-> (5 * 60 + 21) * MsPerMinute + 10 * 1000],
    [name |-> "America/New_York", off |-> -(5 * 60) * MsPerMinute,
     epochOff |-> -(5 * 60) * MsPerMinute] }

\* A Date object (its time value), or null.
NoDate == [isNull |-> TRUE, ms |-> 0]
DateOf(ms) == [isNull |-> FALSE, ms |-> ms]

\* new Date(year, month, day) for the zone offset in force: local midnight.
LocalMidnight(day, offset) == day * MsPerDay - offset
\* The calendar day an instant falls on, read with the given offset.
DayAt(ms, offset) == (ms + offset) \div MsPerDay

\* new Date(string): a date-only ISO string is read as UTC midnight, the
\* en-US numeric form as local midnight, other text gives an invalid Date.
DateParse(x, host) ==
  IF x.t = "datetext"
    THEN IF x.s = IsoLayout
           THEN DateOf(x.n * MsPerDay)
           ELSE DateOf(LocalMidnight(x.n, host.off))
    ELSE NoDate


parseDate(dateValue, host) ==
  IF ~Truthy(dateValue) THEN NoDate
  ELSE IF dateValue.t = "number"
    THEN LET excelEpoch == LocalMidnight(ExcelEpochDay, host.epochOff)
             days == dateValue.n - 2
         IN  DateOf(excelEpoch + days * MsPerDay)
    ELSE DateParse(dateValue, host)


\* now.toLocaleString(.., Asia/Kolkata) gives Kolkata's wall clock, which
\* new Date(string) reads back as host-local time; its local year, month and
\* day are then Kolkata's, and new Date(y, m, d) is the host's local midnight.
getTodayInKolkata(nowMs, host) ==
  LET kolkataWall == nowMs + KolkataOffset
      kolkataTime == kolkataWall - host.off
  IN  LocalMidnight(DayAt(kolkataTime, host.off), host.off)

\* ------------------------------------------------------- findColumns
sAction == <<"a", "c", "t", "i", "o", "n">>
sDue == <<"d", "u", "e">>
sDate == <<"d", "a", "t", "e">>
sDueDate == sDue \o <<" ">> \o sDate

\* XLSX.utils.encode_col(col), for the columns A..Z.
encode_col(col) == UpperChars[col + 1]

\* String(cell.w || cell.v || '').toLowerCase().trim()
HeaderText(cell) ==
  trim(toLowerCase(String(OrElse(OrElse(cell.w, cell.v), Str(<<>>)))))

\* Mutant of findColumnsStep: the action column is overwritten by later matches.
findColumnsStepLastWins(cols, cell, col) ==
  IF ~cell.present THEN cols
  ELSE LET header == HeaderText(cell)
       IN  IF includes(header, sAction)
             THEN [cols EXCEPT !.actionCol = encode_col(col)]
             ELSE IF (includes(header, sDue) /\ includes(header, sDate))
                     \/ (header = sDueDate /\ cols.dueDateCol = Null)
                    THEN [cols EXCEPT !.dueDateCol = encode_col(col)]
                    ELSE cols

\* One iteration of the header loop (lines 62-73): && binds tighter than ||,
\* so the !dueDateCol test guards only the header === 'due date' disjunct.
findColumnsStep(cols, cell, col) ==
  IF ~cell.present THEN cols
  ELSE LET header == HeaderText(cell)
       IN  IF includes(header, sAction) /\ cols.actionCol = Null
             THEN [cols EXCEPT !.actionCol = encode_col(col)]
             ELSE IF (includes(header, sDue) /\ includes(header, sDate))
                     \/ (header = sDueDate /\ cols.dueDateCol = Null)
                    THEN [cols EXCEPT !.dueDateCol = encode_col(col)]
                    ELSE cols

NoCols == [actionCol |-> Null, dueDateCol |-> Null]

\* The loop from column col on; headers[i] is the cell of column i - 1.
RECURSIVE findColumnsFrom(_, _, _)
findColumnsFrom(headers, col, cols) ==
  IF col > Len(headers) - 1 THEN cols
  ELSE findColumnsFrom(headers, col + 1, findColumnsStep(cols, headers[col + 1], col))

findColumns(headers) == findColumnsFrom(headers, 0, NoCols)

\* ------------------------------------------------------------- inputs
TextCell(chars) == Cell(Str(chars), Str(chars))

\* Header cells for the header scan on its own.
HeaderCells ==
  { NoCell,
    TextCell(<<" ", "A", "c", "t", "i", "o", "n", " ">>),
    TextCell(<<"D", "u", "e", " ", "D", "a", "t", "e">>),
    TextCell(<<"D", "a", "t", "e", " ", "d", "u", "e">>),
    TextCell(<<"A", "c", "t", "i", "o", "n", " ", "d", "u", "e", " ", "d", "a", "t", "e">>),
    TextCell(<<"D", "u", "e">>),
    TextCell(<<>>) }

\* Header cells of the worksheets analysed.
SheetHeaderCells ==
  { NoCell,
    TextCell(<<"A", "c", "t", "i", "o", "n">>),
    TextCell(<<"D", "u", "e", " ", "D", "a", "t", "e">>),
    TextCell(<<"N", "a", "m", "e">>) }

\* All header rows over the columns 0..maxCol.
HeaderRows(cells, maxCol) == [1..(maxCol + 1) -> cells]

\* The header rows of the worksheets analysed: one or two columns wide.
SheetHeaderRows == HeaderRows(SheetHeaderCells, 0) \cup HeaderRows(SheetHeaderCells, 1)

\* Action cells: absent, text, an unformatted number, an empty string (the
\* value of a formula that returns "").
ActionCells ==
  { NoCell,
    TextCell(<<"Y", "e", "s">>),
    TextCell(<<" ", "N", "O", " ">>),
    TextCell(<<"M", "a", "y", "b", "e">>),
    Cell(Undefined, Num(0)),
    TextCell(<<>>) }

\* The wall clock at the start: 17:30 of FirstDay in Asia/Kolkata.
Now0 == FirstDay * MsPerDay + 12 * 60 * MsPerMinute
ClockStep == 12 * 60 * MsPerMinute
\* The days a due-date cell may spell: the day before to the day after.
DueDays == (FirstDay - 1)..(FirstDay + 1)

\* Due-date cells: absent, a serial number without formatted text, a date
\* cell formatted in the en-US layout, ISO text, text that is no date, the
\* empty string.
DueCells ==
  { NoCell, TextCell(<<"N", "/", "A">>), TextCell(<<>>) }
  \cup { Cell(Undefined, Num(d)) : d \in DueDays }
  \cup { Cell(DateText(UsLayout, d), Num(d)) : d \in DueDays }
  \cup { Cell(DateText(IsoLayout, d), DateText(IsoLayout, d)) : d \in DueDays }

\* -------------------------------------------------------------- state
VARIABLES
  host,         \* the host's time zone
  now,          \* the wall clock (new Date()), in milliseconds
  isAnalyzing,  \* useState: isAnalyzing
  result,       \* useState: result
  error,        \* useState: error
  awaiting,     \* analyzeExcel calls suspended at await file.arrayBuffer()
  frame,        \* the locals of the analyzeExcel call that ran last, kept
                \* until the next call starts
  scan,         \* the locals of a findColumns call run on its own
  conv          \* the argument and the value of a parseDate call run on its own

vars == <<host, now, isAnalyzing, result, error, awaiting, frame, scan, conv>>

NoResult == [isNull |-> TRUE]

ActionColumnMsg ==
  "Action column not found. Please ensure your Excel file has an \"Action\" column."
DueDateNote == "Due Date column not found. Overdue analysis skipped."
\* The message of the error XLSX.read throws on bytes that are no workbook.
ReadErrorMsg == "File is not a workbook"

NoFrame ==
  [ phase |-> "none", headers |-> <<>>, actionCol |-> Null, dueDateCol |-> Null,
    notes |-> <<>>, today |-> 0, maxRow |-> 0, row |-> 0,
    totalRows |-> 0, assignedCount |-> 0, overdueCount |-> 0,
    actionCell |-> NoCell, dueDateCell |-> NoCell ]

NoScan == [headers |-> <<>>, col |-> 0, cols |-> NoCols, done |-> FALSE]

NoConv == [dateValue |-> Undefined, returned |-> NoDate, done |-> FALSE]

\* -------------------------------------------------------- analyzeExcel
\* Mutant of MissingActionColumn: the check of line 91 left out.
MissingActionColumnNever(cols) == FALSE

\* !actionCol (line 91)
MissingActionColumn(cols) == cols.actionCol = Null

\* Mutant of NotesFor: the note pushed whether or not the column was found.
NotesForAlways(dueDateCol) == <<DueDateNote>>

\* Lines 95-98.
NotesFor(dueDateCol) == IF dueDateCol = Null THEN <<DueDateNote>> ELSE <<>>


\* !actionCell && !dueDateCol (line 110)
RowSkipped(actionCell, dueDateCol) == ~actionCell.present /\ dueDateCol = Null


\* Mutant of IsOverdue: the null test left out; null < today compares 0.
IsOverdueNoNullTest(dueDate, today) ==
  (IF dueDate.isNull THEN 0 ELSE dueDate.ms) < today

\* dueDate && dueDate < today (line 123)
IsOverdue(dueDate, today) == ~dueDate.isNull /\ dueDate.ms < today

\* Mutant of ScanRow: the overdue test made outside the assigned branch.
ScanRowOverdueAnyRow(f, actionCell, dueDateCell, h) ==
  LET read == [f EXCEPT !.row = f.row + 1, !.actionCell = actionCell,
                        !.dueDateCell = dueDateCell]
  IN  IF RowSkipped(actionCell, f.dueDateCol) THEN read
      ELSE [read EXCEPT
              !.totalRows = f.totalRows + 1,
              !.assignedCount =
                 IF isAssigned(CellValue(actionCell)) THEN @ + 1 ELSE @,
              !.overdueCount =
                 IF f.dueDateCol # Null
                    /\ IsOverdue(parseDate(CellValue(dueDateCell), h), f.today)
                   THEN @ + 1 ELSE @]

\* One iteration of the row loop (lines 106-128) on the cells of row f.row.
ScanRow(f, actionCell, dueDateCell, h) ==
  LET read == [f EXCEPT !.row = f.row + 1, !.actionCell = actionCell,
                        !.dueDateCell = dueDateCell]
  IN  IF RowSkipped(actionCell, f.dueDateCol) THEN read
      ELSE IF ~isAssigned(CellValue(actionCell))
        THEN [read EXCEPT !.totalRows = f.totalRows + 1]
        ELSE [read EXCEPT
                !.totalRows = f.totalRows + 1,
                !.assignedCount = f.assignedCount + 1,
                !.overdueCount =
                   IF f.dueDateCol # Null
                      /\ IsOverdue(parseDate(CellValue(dueDateCell), h), f.today)
                     THEN @ + 1 ELSE @]

\* Math.round(p / q) and (p / q).toFixed(0) for p >= 0, q > 0: half rounds up.
MathRound(p, q) == (2 * p + q) \div (2 * q)

\* Mutant of PctTenths: the percentage truncated instead of rounded.
PctTenthsTruncated(count, of) == IF of > 0 THEN (1000 * count) \div of ELSE 0

\* Math.round(pct * 10) / 10 with pct = of > 0 ? (count / of) * 100 : 0
\* (lines 130-131, 138, 140), held as a number of tenths.
PctTenths(count, of) == IF of > 0 THEN MathRound(1000 * count, of) ELSE 0

\* pct.toFixed(0) (line 133)
PctWhole(count, of) == IF of > 0 THEN MathRound(100 * count, of) ELSE 0

\* today.toISOString().split('T')[0]: the UTC calendar date of the instant.
TodayIso(today) == DateText(IsoLayout, DayAt(today, 0))


\* dueDateCol || 'Not found' (line 145)
DueDateLabel(dueDateCol) == IF dueDateCol = Null THEN "Not found" ELSE dueDateCol

\* The analysisResult object (lines 130-149).
AnalysisResult(f) ==
  [ isNull |-> FALSE,
    total_rows |-> f.totalRows,
    assigned_count |-> f.assignedCount,
    assigned_pct |-> PctTenths(f.assignedCount, f.totalRows),
    overdue_count |-> f.overdueCount,
    overdue_pct_of_assigned |-> PctTenths(f.overdueCount, f.assignedCount),
    today_iso |-> TodayIso(f.today),
    timezone |-> "Asia/Kolkata",
    columns_used |-> [action |-> f.actionCol, due_date |-> DueDateLabel(f.dueDateCol)],
    notes |-> f.notes,
    summary |-> << f.totalRows, f.assignedCount,
                   PctWhole(f.assignedCount, f.totalRows), f.overdueCount,
                   PctWhole(f.overdueCount, f.assignedCount) >> ]

\* analyzeExcel up to its await (lines 79-84); the locals kept of the call
\* before are dropped.
AnalyzeStart ==
  /\ isAnalyzing' = TRUE
  /\ error' = Null
  /\ result' = NoResult
  /\ awaiting' = awaiting + 1
  /\ frame' = NoFrame
  /\ UNCHANGED <<host, now, scan, conv>>

\* handleFileInput (lines 201-206); the input is disabled while isAnalyzing
\* (line 236).  Spec follows one analysis at a time.
HandleFileInput ==
  /\ ~isAnalyzing
  /\ awaiting = 0
  /\ AnalyzeStart

\* handleDrop (lines 180-199): a drop without an .xlsx or .xls file only
\* shows a toast.  Spec follows one analysis at a time.
HandleDrop ==
  /\ awaiting = 0
  /\ frame.phase # "scan"
  /\ \E hasExcelFile \in BOOLEAN :
       IF hasExcelFile THEN AnalyzeStart ELSE UNCHANGED vars

\* The call resumes and XLSX.read throws (lines 84-85, 157-167).
ReadFails ==
  /\ awaiting > 0
  /\ frame.phase # "scan"
  /\ awaiting' = awaiting - 1
  /\ error' = ReadErrorMsg
  /\ isAnalyzing' = FALSE
  /\ frame' = [NoFrame EXCEPT !.phase = "failed"]
  /\ UNCHANGED <<host, now, result, scan, conv>>

\* The locals on entry to the row loop (lines 95-103).
LoopEntry(headers, cols, maxRow, nowMs, h) ==
  [NoFrame EXCEPT
     !.phase = "scan", !.headers = headers,
     !.actionCol = cols.actionCol,
     !.dueDateCol = cols.dueDateCol,
     !.notes = NotesFor(cols.dueDateCol),
     !.today = getTodayInKolkata(nowMs, h),
     !.maxRow = maxRow, !.row = 1]

\* The call resumes with a workbook (lines 84-103): the columns are located,
\* and either the missing action column is thrown and caught (lines 91-93,
\* 157-167) or the row loop is entered.
Resume ==
  /\ awaiting > 0
  /\ frame.phase # "scan"
  /\ awaiting' = awaiting - 1
  /\ \E headers \in SheetHeaderRows, maxRow \in 0..MaxRow :
       LET cols == findColumns(headers)
       IN  IF MissingActionColumn(cols)
             THEN /\ frame' = [NoFrame EXCEPT !.phase = "failed", !.headers = headers,
                                              !.maxRow = maxRow]
                  /\ error' = ActionColumnMsg
                  /\ isAnalyzing' = FALSE
             ELSE /\ frame' = LoopEntry(headers, cols, maxRow, now, host)
                  /\ UNCHANGED <<error, isAnalyzing>>
  /\ UNCHANGED <<host, now, result, scan, conv>>

\* One iteration of the row loop on the cells the worksheet holds in the
\* action column and, when one was located, the due-date column of the row.
ScanStep ==
  /\ frame.phase = "scan"
  /\ frame.row <= frame.maxRow
  /\ \E actionCell \in ActionCells,
        dueDateCell \in IF frame.dueDateCol = Null THEN {NoCell} ELSE DueCells :
       frame' = ScanRow(frame, actionCell, dueDateCell, host)
  /\ UNCHANGED <<host, now, isAnalyzing, result, error, awaiting, scan, conv>>

\* After the loop: the result is built and set (lines 130-151, 165-167); the
\* loop body's cells are out of scope.
Emit ==
  /\ frame.phase = "scan"
  /\ frame.row > frame.maxRow
  /\ result' = AnalysisResult(frame)
  /\ isAnalyzing' = FALSE
  /\ frame' = [frame EXCEPT !.phase = "done", !.actionCell = NoCell,
                            !.dueDateCell = NoCell]
  /\ UNCHANGED <<host, now, error, awaiting, scan, conv>>

\* Time passes.
Tick ==
  /\ now < Now0 + MaxTicks * ClockStep
  /\ now' = now + ClockStep
  /\ UNCHANGED <<host, isAnalyzing, result, error, awaiting, frame, scan, conv>>

Init ==
  /\ host \in Hosts
  /\ now = Now0
  /\ isAnalyzing = FALSE
  /\ result = NoResult
  /\ error = Null
  /\ awaiting = 0
  /\ frame = NoFrame
  /\ scan = NoScan
  /\ conv = NoConv

Next ==
  \/ HandleFileInput
  \/ HandleDrop
  \/ ReadFails
  \/ Resume
  \/ ScanStep
  \/ Emit
  \/ Tick

Spec == Init /\ [][Next]_vars

\* ------------------------------------------- findColumns on its own
InitCols ==
  /\ host = CHOOSE h \in Hosts : h.name = "UTC"
  /\ now = Now0
  /\ isAnalyzing = FALSE
  /\ result = NoResult
  /\ error = Null
  /\ awaiting = 0
  /\ frame = NoFrame
  /\ \E headers \in HeaderRows(HeaderCells, MaxScanCol) :
       scan = [NoScan EXCEPT !.headers = headers]
  /\ conv = NoConv

\* One iteration of the header loop (lines 62-73).
ColumnStep ==
  /\ ~scan.done
  /\ scan.col <= Len(scan.headers) - 1
  /\ scan' = [scan EXCEPT
                !.cols = findColumnsStep(scan.cols, scan.headers[scan.col + 1], scan.col),
                !.col = scan.col + 1]
  /\ UNCHANGED <<host, now, isAnalyzing, result, error, awaiting, frame, conv>>

\* return { actionCol, dueDateCol } (line 75)
ColumnsReturn ==
  /\ ~scan.done
  /\ scan.col > Len(scan.headers) - 1
  /\ scan' = [scan EXCEPT !.done = TRUE]
  /\ UNCHANGED <<host, now, isAnalyzing, result, error, awaiting, frame, conv>>

NextCols == ColumnStep \/ ColumnsReturn

SpecCols == InitCols /\ [][NextCols]_vars

\* ------------------------------------------------------ overlapping calls
\* handleDrop does not look at isAnalyzing, so a drop starts a call while
\* earlier calls are suspended at await file.arrayBuffer() (line 84).  What
\* follows the await runs to completion before any other handler or
\* continuation runs, so each resumed call is one step here.

\* The rows of the worksheets analysed by overlapping calls: <<action cell,
\* due-date cell>>.
UIRows ==
  { NoCell, TextCell(<<"Y", "e", "s">>), TextCell(<<" ", "N", "O", " ">>) }
  \X { NoCell, Cell(DateText(UsLayout, FirstDay - 1), Num(FirstDay - 1)) }

UISheetRows == UNION { [1..n -> UIRows] : n \in 0..MaxUIRow }

\* The row loop (lines 106-128) over rows[1], rows[2], ..., the cells of the
\* rows 1..f.maxRow.
RECURSIVE ScanRows(_, _, _)
ScanRows(f, rows, h) ==
  IF f.row > f.maxRow THEN f
  ELSE ScanRows(ScanRow(f, rows[f.row][1],
                        IF f.dueDateCol = Null THEN NoCell ELSE rows[f.row][2], h),
                rows, h)

\* handleFileInput (lines 201-206); the input is disabled while isAnalyzing.
UIFileInput ==
  /\ ~isAnalyzing
  /\ awaiting < MaxInFlight
  /\ AnalyzeStart

\* handleDrop (lines 180-199).
UIDrop ==
  /\ awaiting < MaxInFlight
  /\ \E hasExcelFile \in BOOLEAN :
       IF hasExcelFile THEN AnalyzeStart ELSE UNCHANGED vars

\* A suspended call resumes and XLSX.read throws (lines 84-85, 157-167).
UIReadFails ==
  /\ awaiting > 0
  /\ awaiting' = awaiting - 1
  /\ error' = ReadErrorMsg
  /\ isAnalyzing' = FALSE
  /\ UNCHANGED <<host, now, result, frame, scan, conv>>

\* A suspended call resumes with a workbook and runs to its end (lines
\* 84-167): the missing action column is thrown and caught, or the rows are
\* scanned and the result is set.
UIAnalyze ==
  /\ awaiting > 0
  /\ awaiting' = awaiting - 1
  /\ isAnalyzing' = FALSE
  /\ \E headers \in SheetHeaderRows, rows \in UISheetRows :
       LET cols == findColumns(headers)
       IN  IF MissingActionColumn(cols)
             THEN /\ error' = ActionColumnMsg
                  /\ UNCHANGED result
             ELSE /\ result' = AnalysisResult(
                                 ScanRows(LoopEntry(headers, cols, Len(rows), now, host),
                                          rows, host))
                  /\ UNCHANGED error
  /\ UNCHANGED <<host, now, frame, scan, conv>>

NextUI ==
  \/ UIFileInput
  \/ UIDrop
  \/ UIReadFails
  \/ UIAnalyze
  \/ Tick

SpecUI == Init /\ [][NextUI]_vars

\* ---------------------------------------------------- parseDate on its own
\* Europe/Warsaw in winter: UTC+1 now, Warsaw mean time (UTC+1:24) in 1900.
DateHosts ==
  Hosts \cup { [name |-> "Europe/Warsaw", off |-> 60 * MsPerMinute,
                epochOff |-> (60 + 24) * MsPerMinute] }

\* The values handed to parseDate: serial numbers and what due-date cells hold.
DateValues ==
  { Num(n) : n \in 0..MaxSerial } \cup { CellValue(cell) : cell \in DueCells }

InitDate ==
  /\ host \in DateHosts
  /\ now = Now0
  /\ isAnalyzing = FALSE
  /\ result = NoResult
  /\ error = Null
  /\ awaiting = 0
  /\ frame = NoFrame
  /\ scan = NoScan
  /\ \E dateValue \in DateValues : conv = [NoConv EXCEPT !.dateValue = dateValue]

\* parseDate(dateValue) (lines 35-48).
ParseDateCall ==
  /\ ~conv.done
  /\ conv' = [conv EXCEPT !.returned = parseDate(conv.dateValue, host), !.done = TRUE]
  /\ UNCHANGED <<host, now, isAnalyzing, result, error, awaiting, frame, scan>>

NextDate == ParseDateCall

SpecDate == InitDate /\ [][NextDate]_vars

\* ------------------------------------------------------------ claims
\* What the claims call the header of a column: lower-cased and trimmed.
IsActionHeader(cell) == cell.present /\ includes(HeaderText(cell), sAction)
IsDueDateHeader(cell) ==
  /\ cell.present
  /\ \/ includes(HeaderText(cell), sDue) /\ includes(HeaderText(cell), sDate)
     \/ HeaderText(cell) = sDueDate

\* The reference of the leftmost column whose header satisfies P, or null.
Leftmost(headers, P(_)) ==
  IF \E i \in 1..Len(headers) : P(headers[i])
    THEN LET first == CHOOSE i \in 1..Len(headers) :
                        P(headers[i]) /\ \A j \in 1..(i - 1) : ~P(headers[j])
         IN  encode_col(first - 1)
    ELSE Null

\* C1: at every step of the row scan and in the result that is emitted,
\* 0 <= overdue count <= assigned count <= total rows.
CountersOrdered ==
  /\ 0 <= frame.overdueCount
  /\ frame.overdueCount <= frame.assignedCount
  /\ frame.assignedCount <= frame.totalRows
  /\ ~result.isNull =>
       /\ 0 <= result.overdue_count
       /\ result.overdue_count <= result.assigned_count
       /\ result.assigned_count <= result.total_rows

\* C1 witness: a result with all three counters different and non-zero.
CountersOrderedWitness ==
  /\ ~result.isNull
  /\ result.overdue_count = 1
  /\ result.assigned_count = 2
  /\ result.total_rows = 3

\* p tenths is 100 * count / of rounded to one decimal, a half rounding up.
IsRoundedPct(p, count, of) ==
  /\ 2 * p * of - of <= 2000 * count
  /\ 2000 * count < 2 * p * of + of

\* C2 as stated: assigned_pct is 0 if and only if total_rows is 0, and with
\* total_rows > 0 it is 100 * assigned_count / total_rows rounded to one decimal.
AssignedPctZeroIffNoRows ==
  ~result.isNull =>
    /\ result.assigned_pct = 0 <=> result.total_rows = 0
    /\ result.total_rows > 0 =>
         IsRoundedPct(result.assigned_pct, result.assigned_count, result.total_rows)

\* C2 as amended: assigned_pct is 0 if total_rows is 0 (the converse fails: it
\* is 0 as well when rows were counted and none is assigned), and with
\* total_rows > 0 it is 100 * assigned_count / total_rows rounded to one decimal.
AssignedPctRounded ==
  ~result.isNull =>
    /\ result.total_rows = 0 => result.assigned_pct = 0
    /\ result.total_rows > 0 =>
         IsRoundedPct(result.assigned_pct, result.assigned_count, result.total_rows)

\* C2 witness: two of three rows assigned, reported as 66.7.
AssignedPctWitness ==
  /\ ~result.isNull
  /\ result.total_rows = 3
  /\ result.assigned_count = 2
  /\ result.assigned_pct = 667

\* C3: findColumns returns as the due-date column the leftmost column whose
\* header contains both "due" and "date" (or equals "due date"), whatever
\* the headers that match "action".
DueDateColumnIsLeftmost ==
  scan.done => scan.cols.dueDateCol = Leftmost(scan.headers, IsDueDateHeader)

\* C4: findColumns returns as the action column the leftmost column whose
\* header contains "action", and null when no header does.
ActionColumnIsLeftmost ==
  scan.done => scan.cols.actionCol = Leftmost(scan.headers, IsActionHeader)

\* C4 witness: two headers match "action", the leftmost of them in column B.
ActionColumnWitness ==
  /\ scan.done
  /\ ~IsActionHeader(scan.headers[1])
  /\ IsActionHeader(scan.headers[2])
  /\ IsActionHeader(scan.headers[3])
  /\ scan.cols.actionCol = "B"

\* The calendar day a due-date cell spells, as a serial or as a date string.
SpelledDay(cell) == CellValue(cell).n

\* C5: a row is marked overdue only when the calendar date of its due-date
\* cell is strictly earlier than the calendar date today was taken as.
OverdueOnlyBeforeToday ==
  [][ ( /\ frame.phase = "scan"
        /\ frame'.phase = "scan"
        /\ frame'.overdueCount > frame.overdueCount )
      => SpelledDay(frame'.dueDateCell) < DayAt(frame.today, host.off) ]_vars

\* C6: today_iso is the calendar date, as observed in Asia/Kolkata, that was
\* computed before the scan and used as the cutoff.
TodayIsoIsCutoffDate ==
  (frame.phase = "done" /\ ~result.isNull) =>
    result.today_iso = DateText(IsoLayout, DayAt(frame.today, host.off))

\* C7: when no header of row 0 contains "action", the call ends in the error
\* outcome with the 'Action column not found' message, no row is scanned, no
\* counter is accumulated and no result is set.
MissingActionColumnFails ==
  ( /\ frame.phase # "none"
    /\ frame.headers # <<>>
    /\ \A i \in 1..Len(frame.headers) : ~IsActionHeader(frame.headers[i]) )
  => /\ frame.phase = "failed"
     /\ error = ActionColumnMsg
     /\ result.isNull
     /\ ~isAnalyzing
     /\ frame.row = 0
     /\ frame.totalRows = 0
     /\ frame.assignedCount = 0
     /\ frame.overdueCount = 0

\* C7 witness: a worksheet with data rows and a due-date header but no action
\* header has been rejected.
MissingActionColumnWitness ==
  /\ frame.phase = "failed"
  /\ error = ActionColumnMsg
  /\ frame.maxRow = 2
  /\ \E i \in 1..Len(frame.headers) : IsDueDateHeader(frame.headers[i])

\* C8: with an action column and no due-date column the analysis succeeds
\* with overdue_count 0, the one note and the "Not found" label; with a
\* due-date column the notes are empty.
MissingDueDateColumnNoted ==
  (frame.phase = "done" /\ ~result.isNull) =>
    /\ error = Null
    /\ IF frame.dueDateCol = Null
         THEN /\ result.overdue_count = 0
              /\ result.notes = <<DueDateNote>>
              /\ result.columns_used.due_date = "Not found"
         ELSE /\ result.notes = <<>>
              /\ result.columns_used.due_date = frame.dueDateCol

\* C8 witness: a result over a sheet without a due-date column in which
\* assigned rows were counted.
MissingDueDateColumnWitness ==
  /\ frame.phase = "done"
  /\ ~result.isNull
  /\ frame.dueDateCol = Null
  /\ result.assigned_count = 2

\* A value that is blank or absent: undefined or the empty string.
BlankValue(x) == x.t = "undefined" \/ (x.t = "string" /\ x.s = <<>>)

\* C9: a data row is left out of total_rows exactly when its action cell is
\* blank or absent and no due-date column was located; every other row adds one.
RowCountedUnlessBlank ==
  [][ ( /\ frame.phase = "scan"
        /\ frame'.phase = "scan"
        /\ frame'.row = frame.row + 1 )
      => /\ frame.row >= 1
         /\ frame'.totalRows =
              frame.totalRows
              + (IF BlankValue(CellValue(frame'.actionCell)) /\ frame.dueDateCol = Null
                   THEN 0 ELSE 1) ]_vars

NegativeWords == {sNo, sFalse, sUnassigned, <<"0">>, <<>>}

\* The rule of C10: not assigned when blank or absent or a negative word.
AssignedByRule(x) ==
  ~BlankValue(x) /\ trim(toLowerCase(String(x))) \notin NegativeWords

\* C10: isAssigned follows the rule for the action value of every row, and
\* assigned_count grows by one exactly for the counted rows assigned by it.
AssignedCountFollowsRule ==
  [][ ( /\ frame.phase = "scan"
        /\ frame'.phase = "scan"
        /\ frame'.row = frame.row + 1 )
      => /\ isAssigned(CellValue(frame'.actionCell))
              = AssignedByRule(CellValue(frame'.actionCell))
         /\ frame'.assignedCount =
              frame.assignedCount
              + (IF frame'.totalRows > frame.totalRows
                    /\ AssignedByRule(CellValue(frame'.actionCell))
                   THEN 1 ELSE 0) ]_vars

\* C10 witness: "Maybe" has just been counted as the second assigned row,
\* after a row that was counted and not assigned.
AssignedCountWitness ==
  /\ frame.phase = "scan"
  /\ frame.actionCell = TextCell(<<"M", "a", "y", "b", "e">>)
  /\ frame.assignedCount = 2
  /\ frame.totalRows = 3

\* A due-date value with no date in it: absent, empty, or text that is no date.
NoDateIn(x) == ~Truthy(x) \/ x.t = "string"

\* C11: an assigned row whose due-date cell is missing, empty or unparseable
\* adds one to total_rows and to assigned_count and nothing to overdue_count,
\* and the scan goes on without an error.
UndatedRowNeverOverdue ==
  [][ ( /\ frame.phase = "scan"
        /\ frame'.phase # "none"
        /\ frame'.row = frame.row + 1
        /\ AssignedByRule(CellValue(frame'.actionCell))
        /\ NoDateIn(CellValue(frame'.dueDateCell)) )
      => /\ frame'.phase = "scan"
         /\ frame'.totalRows = frame.totalRows + 1
         /\ frame'.assignedCount = frame.assignedCount + 1
         /\ frame'.overdueCount = frame.overdueCount
         /\ error' = Null ]_vars

\* C11 witness: with a due-date column located, an assigned row holding "N/A"
\* as its due date has been counted as assigned and not as overdue.
UndatedRowWitness ==
  /\ frame.phase = "scan"
  /\ frame.dueDateCol # Null
  /\ isAssigned(CellValue(frame.actionCell))
  /\ frame.dueDateCell = TextCell(<<"N", "/", "A">>)
  /\ frame.assignedCount = 1
  /\ frame.overdueCount = 0

\* C12: for a serial number n of the plausible range (n >= 1), parseDate
\* returns a Date whose calendar date on the host is day n, that is
\* 1899-12-30 plus n days, so that a date encoded as its serial comes back.
SerialRoundTrip ==
  (conv.done /\ conv.dateValue.t = "number" /\ conv.dateValue.n >= 1) =>
    /\ ~conv.returned.isNull
    /\ DayAt(conv.returned.ms, host.off) = conv.dateValue.n

\* C13: after any sequence of analyzeExcel calls, overlapping ones included,
\* result and error are never both non-null.
ResultOrErrorNotBoth == ~(~result.isNull /\ error # Null)

\* C14: isAnalyzing is true in every state in which a started call has not
\* reached its finally block, and false once no call is in flight.
AnalyzingIffInFlight ==
  /\ awaiting > 0 => isAnalyzing
  /\ awaiting = 0 => ~isAnalyzing
====
